---- MODULE Spec2Model ----
(***************************************************************************)
(* Model of checkin.py: the multi-account check-in run of                  *)
(* anyrouter-check-in.  One run loads the account list, processes the      *)
(* accounts one after the other (check_in_account), sends the DingTalk     *)
(* notification and exits.                                                 *)
(*                                                                         *)
(* Strings that the code parses are sequences of one-character strings;    *)
(* Python dicts are functions whose DOMAIN is the key set; Python None and *)
(* missing dict values are records with a presence flag, so that every     *)
(* value a variable takes has one shape.                                   *)
(***************************************************************************)
EXTENDS Integers, Sequences, FiniteSets, TLC

\* ------------------------------------------------------------------ bounds
MaxAccounts == 2

\* Longest cookie string parse_cookies is called with on its own.
MaxLen == 6

\* --------------------------------------------------------------- constants
QuotaScale == 500000

Required == {<<"acw_tc">>, <<"cdn_sec_tc">>, <<"acw_sc__v2">>}

EmptyDict == [k \in {} |-> <<>>]

\* ----------------------------------------------------- string operations
RECURSIVE IndexOf(_, _, _)
\* Position of the first occurrence of character c in s at or after
\* position from; 0 when there is none.
IndexOf(s, c, from) ==
    IF from > Len(s) THEN 0
    ELSE IF s[from] = c THEN from
    ELSE IndexOf(s, c, from + 1)

RECURSIVE Split(_, _)
\* str.split(sep): the sequence of the segments of s between separators.
Split(s, sep) ==
    LET p == IndexOf(s, sep, 1)
    IN  IF p = 0 THEN <<s>>
        ELSE <<SubSeq(s, 1, p - 1)>> \o Split(SubSeq(s, p + 1, Len(s)), sep)

RECURSIVE LStrip(_)
LStrip(s) == IF s # <<>> /\ Head(s) = " " THEN LStrip(Tail(s)) ELSE s

RECURSIVE RStrip(_)
RStrip(s) ==
    IF s # <<>> /\ s[Len(s)] = " " THEN RStrip(SubSeq(s, 1, Len(s) - 1)) ELSE s

\* str.strip()
Strip(s) == LStrip(RStrip(s))

\* dict[key] = value
DictSet(d, key, value) ==
    [k \in (DOMAIN d) \cup {key} |-> IF k = key THEN value ELSE d[k]]

RECURSIVE ParseSegments_KeepFirst(_, _)
\* Variant: a key that is already in the mapping keeps its first value.
ParseSegments_KeepFirst(segs, d) ==
    IF segs = <<>> THEN d
    ELSE LET cookie == Head(segs)
         IN  IF IndexOf(cookie, "=", 1) # 0
             THEN LET st == Strip(cookie)
                      p  == IndexOf(st, "=", 1)
                      key == SubSeq(st, 1, p - 1)
                  IN  ParseSegments_KeepFirst(Tail(segs),
                          IF key \in DOMAIN d THEN d
                          ELSE DictSet(d, key, SubSeq(st, p + 1, Len(st))))
             ELSE ParseSegments_KeepFirst(Tail(segs), d)

RECURSIVE ParseSegments(_, _)
\* The loop of parse_cookies over the ';'-separated segments.
ParseSegments(segs, d) ==
    IF segs = <<>> THEN d
    ELSE LET cookie == Head(segs)
         IN  IF IndexOf(cookie, "=", 1) # 0
             THEN LET st == Strip(cookie)
                      p  == IndexOf(st, "=", 1)
                  IN  ParseSegments(Tail(segs),
                          DictSet(d, SubSeq(st, 1, p - 1), SubSeq(st, p + 1, Len(st))))
             ELSE ParseSegments(Tail(segs), d)

\* parse_cookies(cookies_data): data is [kind, dict, str] with kind one of
\* "dict", "str", "other".
parse_cookies(data) ==
    IF data.kind = "dict" THEN data.dict
    ELSE IF data.kind = "str" THEN ParseSegments(Split(data.str, ";"), EmptyDict)
    ELSE EmptyDict

\* Variant: on a name held by both, the WAF value is kept.
MergeCookies_WafWins(waf_cookies, user_cookies) ==
    [k \in (DOMAIN waf_cookies) \cup (DOMAIN user_cookies) |->
        IF k \in DOMAIN waf_cookies THEN waf_cookies[k] ELSE user_cookies[k]]

\* {**waf_cookies, **user_cookies}
MergeCookies(waf_cookies, user_cookies) ==
    [k \in (DOMAIN waf_cookies) \cup (DOMAIN user_cookies) |->
        IF k \in DOMAIN user_cookies THEN user_cookies[k] ELSE waf_cookies[k]]

\* ------------------------------------------------ provider responses
\* dict.get(key) is None
Has(d, f) == f \in DOMAIN d

\* round(raw / 500000, 2), kept in hundredths.  Exact halves round to even;
\* the inputs below stay away from them, where the float quotient decides.
Round2(raw) ==
    LET unit == QuotaScale \div 100
        q    == raw \div unit
        r    == raw % unit
    IN  IF 2 * r > unit THEN q + 1
        ELSE IF 2 * r < unit THEN q
        ELSE IF q % 2 = 0 THEN q ELSE q + 1

\* Python None in the place of a BalanceInfo.
NoInfo ==
    [present |-> FALSE, success |-> FALSE, quota |-> 0, used_quota |-> 0,
     display |-> "", error |-> ""]

BalanceOk(quota, used_quota, display) ==
    [present |-> TRUE, success |-> TRUE, quota |-> quota,
     used_quota |-> used_quota, display |-> display, error |-> ""]

BalanceFailed(error) ==
    [present |-> TRUE, success |-> FALSE, quota |-> 0, used_quota |-> 0,
     display |-> "", error |-> error]

\* A field of the decoded body whose value has a type the code cannot use:
\* data that is not an object, or a quota that is not a number.  The value
\* stored in obj for such a field is not looked at.
WrongType(resp, f) == f \in resp.wrongType

\* Variant: the faults of the request and of the parsing reach the caller,
\* which then holds no BalanceInfo at all.
get_user_info_Uncaught(resp) ==
    LET escaped == [NoInfo EXCEPT !.error = "raised"]
    IN
    IF resp.kind = "exc" THEN escaped
    ELSE IF resp.status = 200
    THEN IF resp.body # "object" THEN escaped
         ELSE LET data == resp.obj
              IN  IF Has(data, "success") /\ data.success
                  THEN IF Has(data, "data") /\ WrongType(resp, "data")
                       THEN escaped
                       ELSE
                       LET user_data  == IF Has(data, "data") THEN data.data ELSE EmptyDict
                       IN  IF \/ (Has(user_data, "quota") /\ WrongType(resp, "quota"))
                              \/ (Has(user_data, "used_quota") /\ WrongType(resp, "used_quota"))
                           THEN escaped
                           ELSE
                           LET quota      == Round2(IF Has(user_data, "quota")
                                                    THEN user_data.quota ELSE 0)
                               used_quota == Round2(IF Has(user_data, "used_quota")
                                                    THEN user_data.used_quota ELSE 0)
                           IN  BalanceOk(quota, used_quota, "balance")
                  ELSE IF \/ (Has(data, "status") /\ data.status \in {"ok", "success"})
                          \/ (Has(data, "code") /\ data.code = 0)
                  THEN IF \/ (Has(data, "credit") /\ WrongType(resp, "credit"))
                          \/ (Has(data, "usage") /\ WrongType(resp, "usage"))
                       THEN escaped
                       ELSE
                       LET quota      == Round2(IF Has(data, "credit") THEN data.credit ELSE 0)
                           used_quota == Round2(IF Has(data, "usage") THEN data.usage ELSE 0)
                       IN  BalanceOk(quota, used_quota,
                               IF quota # 0 \/ used_quota # 0
                               THEN "balance" ELSE "unavailable")
                  ELSE BalanceFailed("http")
    ELSE BalanceFailed("http")

\* get_user_info: resp is the outcome of client.get, [kind |-> "exc"] for a
\* timeout or connection error, else [kind |-> "resp", status, body, obj,
\* wrongType] with body "object" (JSON object obj), "other" (JSON, not an
\* object) or "notjson".  Every exception of the try block, from the request,
\* from json() or from a field of the wrong type, ends in the except clause.
get_user_info(resp) ==
    LET caught == BalanceFailed("exception")
    IN
    IF resp.kind = "exc" THEN caught
    ELSE IF resp.status = 200
    THEN IF resp.body # "object" THEN caught
         ELSE LET data == resp.obj
              IN  IF Has(data, "success") /\ data.success
                  THEN IF Has(data, "data") /\ WrongType(resp, "data")
                       THEN caught
                       ELSE
                       LET user_data  == IF Has(data, "data") THEN data.data ELSE EmptyDict
                       IN  IF \/ (Has(user_data, "quota") /\ WrongType(resp, "quota"))
                              \/ (Has(user_data, "used_quota") /\ WrongType(resp, "used_quota"))
                           THEN caught
                           ELSE
                           LET quota      == Round2(IF Has(user_data, "quota")
                                                    THEN user_data.quota ELSE 0)
                               used_quota == Round2(IF Has(user_data, "used_quota")
                                                    THEN user_data.used_quota ELSE 0)
                           IN  BalanceOk(quota, used_quota, "balance")
                  ELSE IF \/ (Has(data, "status") /\ data.status \in {"ok", "success"})
                          \/ (Has(data, "code") /\ data.code = 0)
                  THEN IF \/ (Has(data, "credit") /\ WrongType(resp, "credit"))
                          \/ (Has(data, "usage") /\ WrongType(resp, "usage"))
                       THEN caught
                       ELSE
                       LET quota      == Round2(IF Has(data, "credit") THEN data.credit ELSE 0)
                           used_quota == Round2(IF Has(data, "usage") THEN data.usage ELSE 0)
                       IN  BalanceOk(quota, used_quota,
                               IF quota # 0 \/ used_quota # 0
                               THEN "balance" ELSE "unavailable")
                  ELSE BalanceFailed("http")
    ELSE BalanceFailed("http")

\* str.lower() of one character
LowerChar(c) ==
    CASE c = "S" -> "s" [] c = "U" -> "u" [] c = "C" -> "c" [] c = "E" -> "e"
      [] OTHER -> c

Lower(s) == [k \in 1..Len(s) |-> LowerChar(s[k])]

\* sub in s
Contains(s, sub) ==
    \E k \in 0..(Len(s) - Len(sub)) : SubSeq(s, k + 1, k + Len(sub)) = sub

SuccessToken == <<"s", "u", "c", "c", "e", "s", "s">>

\* Variant: a decoded object that does not signal success falls back to the
\* substring check of the raw body.
execute_check_in_Fallback(resp) ==
    IF resp.kind = "exc" THEN [raised |-> TRUE, value |-> FALSE]
    ELSE IF resp.status = 200
    THEN IF resp.body = "object"
         THEN LET result == resp.obj
              IN  [raised |-> FALSE,
                   value  |-> \/ (Has(result, "ret") /\ result.ret = 1)
                              \/ (Has(result, "code") /\ result.code = 0)
                              \/ (Has(result, "success") /\ result.success)
                              \/ Contains(Lower(resp.text), SuccessToken)]
         ELSE IF resp.body = "other" THEN [raised |-> TRUE, value |-> FALSE]
         ELSE [raised |-> FALSE, value |-> Contains(Lower(resp.text), SuccessToken)]
    ELSE [raised |-> FALSE, value |-> FALSE]

\* execute_check_in: resp is the outcome of client.post in the shape of
\* get_user_info's, with text the raw body.  The result is the returned
\* boolean, or raised when the function is left by an exception.
execute_check_in(resp) ==
    IF resp.kind = "exc" THEN [raised |-> TRUE, value |-> FALSE]
    ELSE IF resp.status = 200
    THEN IF resp.body = "object"
         THEN LET result == resp.obj
              IN  [raised |-> FALSE,
                   value  |-> \/ (Has(result, "ret") /\ result.ret = 1)
                              \/ (Has(result, "code") /\ result.code = 0)
                              \/ (Has(result, "success") /\ result.success)]
         ELSE IF resp.body = "other" THEN [raised |-> TRUE, value |-> FALSE]
         ELSE [raised |-> FALSE, value |-> Contains(Lower(resp.text), SuccessToken)]
    ELSE [raised |-> FALSE, value |-> FALSE]

\* ------------------------------------------------------------ inputs
\* The provider registry of AppConfig: one provider for each combination of
\* needs_waf_cookies() and needs_manual_check_in().
Providers ==
    [anyrouter     |-> [found |-> TRUE, needs_waf_cookies |-> TRUE,  needs_manual_check_in |-> TRUE],
     waf_auto      |-> [found |-> TRUE, needs_waf_cookies |-> TRUE,  needs_manual_check_in |-> FALSE],
     direct_manual |-> [found |-> TRUE, needs_waf_cookies |-> FALSE, needs_manual_check_in |-> TRUE],
     agentrouter   |-> [found |-> TRUE, needs_waf_cookies |-> FALSE, needs_manual_check_in |-> FALSE]]

\* Python None in the place of a ProviderConfig.
NoProvider ==
    [found |-> FALSE, needs_waf_cookies |-> FALSE, needs_manual_check_in |-> FALSE]

\* app_config.get_provider(name)
get_provider(name) == IF name \in DOMAIN Providers THEN Providers[name] ELSE NoProvider

StrPayload(s)  == [kind |-> "str", str |-> s, dict |-> EmptyDict]

DictPayload(d) == [kind |-> "dict", str |-> <<>>, dict |-> d]

OtherPayload   == [kind |-> "other", str |-> <<>>, dict |-> EmptyDict]

\* AccountConfig.cookies as configured: a cookie string with one pair and a
\* segment without '=', a string with another pair, and a string without
\* any pair.
CookiePayloads ==
    { StrPayload(<<"s", "=", "x", ";", "b">>),
      StrPayload(<<"t", "=", "y">>),
      StrPayload(<<"b">>) }

\* AccountConfig.provider as configured.
ProviderNames == (DOMAIN Providers) \cup {"unknown"}

AccountConfigs == [provider : ProviderNames, cookies : CookiePayloads]

AccountLists == UNION { [1..n -> AccountConfigs] : n \in 0..MaxAccounts }

\* What client.get(user_info_url) can produce.
BalanceResponses ==
    { [kind |-> "exc",  status |-> 0,   body |-> "notjson", obj |-> EmptyDict, wrongType |-> {}],
      [kind |-> "resp", status |-> 500, body |-> "notjson", obj |-> EmptyDict, wrongType |-> {}],
      [kind |-> "resp", status |-> 200, body |-> "notjson", obj |-> EmptyDict, wrongType |-> {}],
      [kind |-> "resp", status |-> 200, body |-> "object",  obj |-> [msg |-> "no"], wrongType |-> {}],
      [kind |-> "resp", status |-> 200, body |-> "object",
       obj |-> [success |-> TRUE, data |-> [quota |-> 1000000, used_quota |-> 250000]],
       wrongType |-> {}],
      [kind |-> "resp", status |-> 200, body |-> "object",
       obj |-> [status |-> "ok", credit |-> 1000000, usage |-> 250000],
       wrongType |-> {}] }

\* What client.post(sign_in_url) can produce.
CheckInResponses ==
    { [kind |-> "exc",  status |-> 0,   body |-> "notjson", obj |-> EmptyDict, text |-> <<>>],
      [kind |-> "resp", status |-> 500, body |-> "object",  obj |-> [ret |-> 1], text |-> <<>>],
      [kind |-> "resp", status |-> 200, body |-> "object",  obj |-> [ret |-> 1], text |-> <<>>],
      [kind |-> "resp", status |-> 200, body |-> "object",
       obj |-> [code |-> 1, msg |-> "already signed"], text |-> <<>>],
      [kind |-> "resp", status |-> 200, body |-> "other",   obj |-> EmptyDict, text |-> <<>>],
      [kind |-> "resp", status |-> 200, body |-> "notjson", obj |-> EmptyDict,
       text |-> <<"S", "u", "c", "c", "e", "s", "s", "!">>],
      [kind |-> "resp", status |-> 200, body |-> "notjson", obj |-> EmptyDict,
       text |-> <<"n", "o">>] }

\* What requests.post(webhook) can produce: status 200, another status, or
\* a transport exception.
WebhookResponses == {"200", "500", "exc"}

\* ------------------------------------------------------------- state
VARIABLES
    accounts,     \* load_accounts_config(): the configured accounts
    webhook,      \* send_dingtalk_message: os.getenv("DINGDING_WEBHOOK") is
                  \* set, as read when the notification is sent
    hashFile,     \* BALANCE_HASH_FILE: whether it exists, and its content
                  \* (no file before the first run)
    hashLoads,    \* calls of load_balance_hash in this run
    hashSaves,    \* calls of save_balance_hash in this run
    pc,           \* position of the run
    i,            \* index of the account in the loop of main (from 1)
    provider,     \* check_in_account: provider
    cookies,      \* check_in_account: cookies
    all_cookies,  \* check_in_account: all_cookies
    info,         \* check_in_account: info
    ret,          \* the tuple check_in_account returns
    clients,      \* per account: "none", "open" or "closed" httpx.Client
    browser,      \* resources held by get_waf_cookies_with_playwright
    requests,     \* network activity so far: browser sessions, clients, GET, POST
    outcomes,     \* per account: the (ok, info) main received
    success,      \* main: success
    balances,     \* main: balances
    notifyCalls,  \* calls of send_dingtalk_message
    notify,       \* what the notifier did: "none", "skipped", "200", "500", "exc"
    message,      \* arguments send_dingtalk_message was called with
    exitCode,     \* process exit code, -1 while running
    exitCause,    \* "running", "normal", "no_accounts", "exception", "interrupt"
    call,         \* a function called on its own: its name and arguments
    answer        \* what that call returned

vars ==
    <<accounts, webhook, hashFile, hashLoads, hashSaves, pc, i, provider,
      cookies, all_cookies, info, ret, clients, browser, requests, outcomes,
      success, balances, notifyCalls, notify, message, exitCode, exitCause,
      call, answer>>

config   == <<accounts, webhook>>

hashVars == <<hashFile, hashLoads, hashSaves>>

locals   == <<provider, cookies, all_cookies, info>>

tally    == <<outcomes, success, balances>>

notifier == <<notifyCalls, notify, message>>

exit     == <<exitCode, exitCause>>

pure     == <<call, answer>>

\* generate_balance_hash(balances): the digest of the name -> quota mapping,
\* kept as the set of its items (what the sorted JSON text determines).
generate_balance_hash(b) == { <<k, b[k].quota>> : k \in DOMAIN b }

NoHashFile == [exists |-> FALSE, digest |-> {}]

NoBrowser == [playwright |-> FALSE, temp_dir |-> FALSE, context |-> FALSE]

NoOutcome == [returned |-> FALSE, ok |-> FALSE, info |-> NoInfo]

NoReturn  == [ok |-> FALSE, info |-> NoInfo]

NoCall == [fn |-> "none"]

NoMessage ==
    [accounts_info |-> <<>>, success |-> 0, fail |-> 0, total |-> 0]

Init ==
    /\ accounts \in AccountLists
    /\ webhook = FALSE
    /\ hashFile = NoHashFile
    /\ hashLoads = 0
    /\ hashSaves = 0
    /\ pc = "start"
    /\ i = 0
    /\ provider = NoProvider
    /\ cookies = EmptyDict
    /\ all_cookies = EmptyDict
    /\ info = NoInfo
    /\ ret = NoReturn
    /\ clients = [k \in 1..Len(accounts) |-> "none"]
    /\ browser = NoBrowser
    /\ requests = <<>>
    /\ outcomes = [k \in 1..Len(accounts) |-> NoOutcome]
    /\ success = 0
    /\ balances = <<>>
    /\ notifyCalls = 0
    /\ notify = "none"
    /\ message = NoMessage
    /\ exitCode = -1
    /\ exitCause = "running"
    /\ call = NoCall
    /\ answer = NoCall

\* ------------------------------------------------------------ helpers
Returned(ok, inf) == [ok |-> ok, info |-> inf]

\* One entry of the network log: what was done for which account, with
\* which cookie names, and how it ended.
Event(kind, result) ==
    [account |-> i, kind |-> kind, cookies |-> DOMAIN all_cookies,
     result |-> result]

\* Variant: the exit code reports success whenever the loop was run.
ExitCodeOf_AnyRun(s) == IF s >= 0 THEN 0 ELSE 1

\* sys.exit(0 if success > 0 else 1)
ExitCodeOf(s) == IF s > 0 THEN 0 ELSE 1

\* finally: client.close()
CloseClient == [clients EXCEPT ![i] = "closed"]

\* ------------------------------------------------------------- main
\* main: load the configuration; without accounts the run exits with 1.
LoadConfig ==
    /\ pc = "start"
    /\ IF accounts = <<>>
       THEN /\ pc' = "exited"
            /\ exitCode' = 1
            /\ exitCause' = "no_accounts"
            /\ UNCHANGED <<i, success, balances>>
       ELSE /\ pc' = "loop"
            /\ i' = 1
            /\ success' = 0
            /\ balances' = <<>>
            /\ UNCHANGED exit
    /\ UNCHANGED <<config, pure, hashVars, locals, ret, clients, browser, requests,
                   outcomes, notifier>>

\* main: for i, account in enumerate(accounts): call check_in_account, or
\* leave the loop after the last account.
ForLoop ==
    /\ pc = "loop"
    /\ IF i <= Len(accounts)
       THEN /\ pc' = "resolve"
            /\ provider' = NoProvider
            /\ cookies' = EmptyDict
            /\ all_cookies' = EmptyDict
            /\ info' = NoInfo
            /\ ret' = NoReturn
       ELSE /\ pc' = "notify"
            /\ UNCHANGED <<locals, ret>>
    /\ UNCHANGED <<config, pure, hashVars, i, clients, browser, requests, tally,
                   notifier, exit>>

\* ------------------------------------------------- check_in_account
\* Variant: an unknown provider id falls back to a default provider.
ResolveProvider_Default ==
    /\ pc = "resolve"
    /\ provider' = IF get_provider(accounts[i].provider).found
                   THEN get_provider(accounts[i].provider)
                   ELSE Providers.agentrouter
    /\ pc' = "parse"
    /\ UNCHANGED <<config, pure, hashVars, i, cookies, all_cookies, info, ret, clients,
                   browser, requests, tally, notifier, exit>>

\* provider = app_config.get_provider(account.provider); if not provider:
\* return False, None
ResolveProvider ==
    /\ pc = "resolve"
    /\ provider' = get_provider(accounts[i].provider)
    /\ IF ~provider'.found
       THEN /\ ret' = Returned(FALSE, NoInfo)
            /\ pc' = "tally"
       ELSE /\ pc' = "parse"
            /\ UNCHANGED ret
    /\ UNCHANGED <<config, pure, hashVars, i, cookies, all_cookies, info, clients,
                   browser, requests, tally, notifier, exit>>

\* Variant: the parsed cookies are not checked for emptiness.
ParseAccountCookies_Unchecked ==
    /\ pc = "parse"
    /\ cookies' = parse_cookies(accounts[i].cookies)
    /\ pc' = "prepare"
    /\ UNCHANGED <<config, pure, hashVars, i, provider, all_cookies, info, ret,
                   clients, browser, requests, tally, notifier, exit>>

\* cookies = parse_cookies(account.cookies); if not cookies: return False, None
ParseAccountCookies ==
    /\ pc = "parse"
    /\ cookies' = parse_cookies(accounts[i].cookies)
    /\ IF DOMAIN cookies' = {}
       THEN /\ ret' = Returned(FALSE, NoInfo)
            /\ pc' = "tally"
       ELSE /\ pc' = "prepare"
            /\ UNCHANGED ret
    /\ UNCHANGED <<config, pure, hashVars, i, provider, all_cookies, info, clients,
                   browser, requests, tally, notifier, exit>>

\* prepare_cookies without WAF: the user cookies are the session cookies;
\* if not all_cookies: return False, None
PrepareCookiesDirect ==
    /\ pc = "prepare"
    /\ ~provider.needs_waf_cookies
    /\ all_cookies' = MergeCookies(EmptyDict, cookies)
    /\ IF DOMAIN all_cookies' = {}
       THEN /\ ret' = Returned(FALSE, NoInfo)
            /\ pc' = "tally"
       ELSE /\ pc' = "client"
            /\ UNCHANGED ret
    /\ UNCHANGED <<config, pure, hashVars, i, provider, cookies, info, clients,
                   browser, requests, tally, notifier, exit>>

\* prepare_cookies with WAF enters get_waf_cookies_with_playwright: the
\* playwright driver is started and the temporary profile directory created.
StartBrowser ==
    /\ pc = "prepare"
    /\ provider.needs_waf_cookies
    /\ browser' = [playwright |-> TRUE, temp_dir |-> TRUE, context |-> FALSE]
    /\ requests' = Append(requests, Event("browser", ""))
    /\ pc' = "launch"
    /\ UNCHANGED <<config, pure, hashVars, i, locals, ret, clients, tally, notifier,
                   exit>>

\* Variant: the failure of the launch is swallowed and the account goes on
\* to its HTTP phase while the browser resources are still held.
LaunchContext_Swallowed ==
    /\ pc = "launch"
    /\ all_cookies' = MergeCookies(EmptyDict, cookies)
    /\ pc' = "client"
    /\ UNCHANGED <<config, pure, hashVars, i, provider, cookies, info, ret, clients,
                   browser, requests, tally, notifier, exit>>

\* Variant: the exception of the launch leaves the function without the two
\* with blocks releasing the driver and the profile directory.
LaunchContext_Leak ==
    /\ pc = "launch"
    /\ pc' = "raised"
    /\ UNCHANGED <<config, pure, hashVars, i, locals, ret, clients, browser,
                   requests, tally, notifier, exit>>

\* launch_persistent_context(..., ignorg_https_errors=true, ...): evaluating
\* the argument list raises NameError (the name true is not defined) before
\* the browser context exists and outside every try block.  The two with
\* blocks release the directory and the driver; neither prepare_cookies nor
\* check_in_account (the call is above its try) nor main catches it.
LaunchContext ==
    /\ pc = "launch"
    /\ browser' = NoBrowser
    /\ pc' = "raised"
    /\ UNCHANGED <<config, pure, hashVars, i, locals, ret, clients, requests, tally,
                   notifier, exit>>

\* client = httpx.Client(...); client.cookies.update(all_cookies)
CreateClient ==
    /\ pc = "client"
    /\ clients' = [clients EXCEPT ![i] = "open"]
    /\ requests' = Append(requests, Event("client", ""))
    /\ pc' = "balance"
    /\ UNCHANGED <<config, pure, hashVars, i, locals, ret, browser, tally, notifier,
                   exit>>

\* Variant: a balance query that failed is issued again.
FetchBalance_Retry ==
    /\ pc = "balance"
    /\ \E resp \in BalanceResponses : info' = get_user_info(resp)
    /\ requests' = Append(requests,
                      Event("GET", IF info'.success THEN "ok" ELSE info'.error))
    /\ pc' = IF ~info'.success /\ Len(requests) < 2 * MaxAccounts + 2 THEN "balance"
             ELSE IF provider.needs_manual_check_in THEN "checkin" ELSE "auto"
    /\ UNCHANGED <<config, pure, hashVars, i, provider, cookies, all_cookies, ret,
                   clients, browser, tally, notifier, exit>>

\* info = get_user_info(client, headers, info_url)
FetchBalance ==
    /\ pc = "balance"
    /\ \E resp \in BalanceResponses : info' = get_user_info(resp)
    /\ requests' = Append(requests,
                      Event("GET", IF info'.success THEN "ok" ELSE info'.error))
    /\ pc' = IF provider.needs_manual_check_in THEN "checkin" ELSE "auto"
    /\ UNCHANGED <<config, pure, hashVars, i, provider, cookies, all_cookies, ret,
                   clients, browser, tally, notifier, exit>>

\* Variant: a check-in counts only when the balance query succeeded.
ManualCheckIn_NeedsBalance ==
    /\ pc = "checkin"
    /\ \E resp \in CheckInResponses :
          LET r == execute_check_in(resp)
          IN  /\ ret' = IF r.raised THEN Returned(FALSE, NoInfo)
                        ELSE Returned(r.value /\ info.success, info)
              /\ requests' = Append(requests,
                                Event("POST", IF r.raised THEN "raised"
                                              ELSE IF r.value THEN "true"
                                              ELSE "false"))
    /\ clients' = CloseClient
    /\ pc' = "tally"
    /\ UNCHANGED <<config, pure, hashVars, i, locals, browser, tally, notifier, exit>>

\* Variant: the client is closed on the normal return only, not when the
\* check-in raises.
ManualCheckIn_NoClose ==
    /\ pc = "checkin"
    /\ \E resp \in CheckInResponses :
          LET r == execute_check_in(resp)
          IN  /\ ret' = IF r.raised THEN Returned(FALSE, NoInfo)
                        ELSE Returned(r.value, info)
              /\ requests' = Append(requests,
                                Event("POST", IF r.raised THEN "raised"
                                              ELSE IF r.value THEN "true"
                                              ELSE "false"))
              /\ clients' = IF r.raised THEN clients ELSE CloseClient
    /\ pc' = "tally"
    /\ UNCHANGED <<config, pure, hashVars, i, locals, browser, tally, notifier, exit>>

\* Variant: when the check-in raises, the balance info already obtained is
\* returned with ok false.
ManualCheckIn_KeepsInfo ==
    /\ pc = "checkin"
    /\ \E resp \in CheckInResponses :
          LET r == execute_check_in(resp)
          IN  /\ ret' = IF r.raised THEN Returned(FALSE, info)
                        ELSE Returned(r.value, info)
              /\ requests' = Append(requests,
                                Event("POST", IF r.raised THEN "raised"
                                              ELSE IF r.value THEN "true"
                                              ELSE "false"))
    /\ clients' = CloseClient
    /\ pc' = "tally"
    /\ UNCHANGED <<config, pure, hashVars, i, locals, browser, tally, notifier, exit>>

\* success = execute_check_in(...); return success, info -- or, when it
\* raises, except Exception: return False, None; finally: client.close()
ManualCheckIn ==
    /\ pc = "checkin"
    /\ \E resp \in CheckInResponses :
          LET r == execute_check_in(resp)
          IN  /\ ret' = IF r.raised THEN Returned(FALSE, NoInfo)
                        ELSE Returned(r.value, info)
              /\ requests' = Append(requests,
                                Event("POST", IF r.raised THEN "raised"
                                              ELSE IF r.value THEN "true"
                                              ELSE "false"))
    /\ clients' = CloseClient
    /\ pc' = "tally"
    /\ UNCHANGED <<config, pure, hashVars, i, locals, browser, tally, notifier, exit>>

\* Variant: without manual check-in the outcome follows the balance query.
AutoCheckIn_FollowsBalance ==
    /\ pc = "auto"
    /\ ret' = Returned(info.success, info)
    /\ clients' = CloseClient
    /\ pc' = "tally"
    /\ UNCHANGED <<config, pure, hashVars, i, locals, browser, requests, tally,
                   notifier, exit>>

\* else: return True, info; finally: client.close()
AutoCheckIn ==
    /\ pc = "auto"
    /\ ret' = Returned(TRUE, info)
    /\ clients' = CloseClient
    /\ pc' = "tally"
    /\ UNCHANGED <<config, pure, hashVars, i, locals, browser, requests, tally,
                   notifier, exit>>

\* ------------------------------------------------------------- main
\* Variant: only an account that is ok contributes a row.
Tally_RowsForOk ==
    /\ pc = "tally"
    /\ outcomes' = [outcomes EXCEPT ![i] =
                       [returned |-> TRUE, ok |-> ret.ok, info |-> ret.info]]
    /\ success' = IF ret.ok THEN success + 1 ELSE success
    /\ balances' = IF ret.ok /\ ret.info.present /\ ret.info.success
                   THEN Append(balances, [name |-> i, balance |-> ret.info.quota,
                                          used |-> ret.info.used_quota])
                   ELSE balances
    /\ i' = i + 1
    /\ pc' = "loop"
    /\ UNCHANGED <<config, pure, hashVars, locals, ret, clients, browser, requests,
                   notifier, exit>>

\* ok, info = await check_in_account(...); count and collect the row.
Tally ==
    /\ pc = "tally"
    /\ outcomes' = [outcomes EXCEPT ![i] =
                       [returned |-> TRUE, ok |-> ret.ok, info |-> ret.info]]
    /\ success' = IF ret.ok THEN success + 1 ELSE success
    /\ balances' = IF ret.info.present /\ ret.info.success
                   THEN Append(balances, [name |-> i, balance |-> ret.info.quota,
                                          used |-> ret.info.used_quota])
                   ELSE balances
    /\ i' = i + 1
    /\ pc' = "loop"
    /\ UNCHANGED <<config, pure, hashVars, locals, ret, clients, browser, requests,
                   notifier, exit>>

\* Variant: a transport exception of the webhook POST is not caught and
\* reaches run_main.
SendDingtalk_Raises ==
    /\ pc = "notify"
    /\ notifyCalls' = notifyCalls + 1
    /\ message' = [accounts_info |-> balances, success |-> success,
                   fail |-> Len(accounts) - success, total |-> Len(accounts)]
    /\ \E w \in BOOLEAN :
          /\ webhook' = w
          /\ IF ~w
             THEN notify' = "skipped"
             ELSE \E r \in WebhookResponses : notify' = r
    /\ pc' = IF notify' = "exc" THEN "raised" ELSE "exit"
    /\ UNCHANGED <<accounts, pure, hashVars, i, locals, ret, clients, browser,
                   requests, tally, exit>>

\* fail = total - success; send_dingtalk_message(balances, success, fail,
\* total): skipped without webhook, else posted; a status other than 200 and
\* a transport exception are printed.
SendDingtalk ==
    /\ pc = "notify"
    /\ notifyCalls' = notifyCalls + 1
    /\ message' = [accounts_info |-> balances, success |-> success,
                   fail |-> Len(accounts) - success, total |-> Len(accounts)]
    /\ \E w \in BOOLEAN :
          /\ webhook' = w
          /\ IF ~w
             THEN notify' = "skipped"
             ELSE \E r \in WebhookResponses : notify' = r
    /\ pc' = "exit"
    /\ UNCHANGED <<accounts, pure, hashVars, i, locals, ret, clients, browser,
                   requests, tally, exit>>

\* sys.exit(0 if success > 0 else 1)
Exit ==
    /\ pc = "exit"
    /\ exitCode' = ExitCodeOf(success)
    /\ exitCause' = "normal"
    /\ pc' = "exited"
    /\ UNCHANGED <<config, pure, hashVars, i, locals, ret, clients, browser,
                   requests, tally, notifier>>

\* ---------------------------------------------------------- run_main
\* except Exception as e: sys.exit(1)
RunMainExcept ==
    /\ pc = "raised"
    /\ exitCode' = 1
    /\ exitCause' = "exception"
    /\ pc' = "exited"
    /\ UNCHANGED <<config, pure, hashVars, i, locals, ret, clients, browser,
                   requests, tally, notifier>>

\* except KeyboardInterrupt: sys.exit(1).  The interrupt unwinds the
\* account being processed: finally closes its client, the with blocks
\* release the browser resources.
Interrupt ==
    /\ pc \notin {"exited", "raised"}
    /\ clients' = [k \in DOMAIN clients |->
                      IF clients[k] = "open" THEN "closed" ELSE clients[k]]
    /\ browser' = NoBrowser
    /\ exitCode' = 1
    /\ exitCause' = "interrupt"
    /\ pc' = "exited"
    /\ UNCHANGED <<config, pure, hashVars, i, locals, ret, requests, tally, notifier>>

Next ==
    \/ LoadConfig
    \/ ForLoop
    \/ ResolveProvider
    \/ ParseAccountCookies
    \/ PrepareCookiesDirect
    \/ StartBrowser
    \/ LaunchContext
    \/ CreateClient
    \/ FetchBalance
    \/ ManualCheckIn
    \/ AutoCheckIn
    \/ Tally
    \/ SendDingtalk
    \/ Exit
    \/ RunMainExcept
    \/ Interrupt

Spec == Init /\ [][Next]_vars

\* ------------------------------------------------ functions on their own
\* A JSON object with the fields named in has, taken from the record vals.
JsonObject(has, vals) == [f \in has |-> vals[f]]

\* Raw bodies: "Success!", "SUCCESS", "succes", "no" and the empty body.
BodyTexts ==
    { <<"S", "u", "c", "c", "e", "s", "s", "!">>,
      <<"S", "U", "C", "C", "E", "S", "S">>,
      <<"s", "u", "c", "c", "e", "s">>,
      <<"n", "o">>,
      <<>> }

\* The JSON objects a check-in can answer with: any of ret, code, success
\* and msg present, with these values.
CheckInObjects ==
    { JsonObject(has, [ret |-> r, code |-> c, success |-> b, msg |-> "already signed"]) :
        has \in SUBSET {"ret", "code", "success", "msg"},
        r \in {0, 1}, c \in {0, 1}, b \in BOOLEAN }

\* What client.post can produce, for execute_check_in called on its own.
CheckInInputs ==
    { [kind |-> "exc", status |-> 0, body |-> "notjson", obj |-> EmptyDict, text |-> <<>>] }
    \cup { [kind |-> "resp", status |-> st, body |-> "object", obj |-> o, text |-> t] :
             st \in {200, 500}, o \in CheckInObjects,
             t \in {<<>>, <<"s", "u", "c", "c", "e", "s", "s">>} }
    \cup { [kind |-> "resp", status |-> st, body |-> "other", obj |-> EmptyDict, text |-> t] :
             st \in {200, 500}, t \in BodyTexts }
    \cup { [kind |-> "resp", status |-> st, body |-> "notjson", obj |-> EmptyDict, text |-> t] :
             st \in {200, 500}, t \in BodyTexts }

\* The JSON objects a balance query can answer with: any of the fields of
\* the two dialects present, with these values.
BalanceObjects ==
    { JsonObject(has, [success |-> b, data |-> d, status |-> st, code |-> c,
                       credit |-> 1500000, usage |-> 0]) :
        has \in SUBSET {"success", "data", "status", "code", "credit", "usage"},
        b \in BOOLEAN,
        d \in {EmptyDict, [quota |-> 1000000, used_quota |-> 250000]},
        st \in {"ok", "success", "error"}, c \in {0, 1} }

\* What client.get can produce, for get_user_info called on its own.
BalanceInputs ==
    { [kind |-> "exc", status |-> 0, body |-> "notjson", obj |-> EmptyDict,
       wrongType |-> {}] }
    \cup { [kind |-> "resp", status |-> st, body |-> b, obj |-> EmptyDict,
            wrongType |-> {}] :
             st \in {200, 500}, b \in {"notjson", "other"} }
    \cup { [kind |-> "resp", status |-> st, body |-> "object", obj |-> o,
            wrongType |-> w] :
             st \in {200, 500}, o \in BalanceObjects,
             w \in {{}, {"data"}, {"quota"}, {"credit"}} }

\* What get_waf_cookies_with_playwright hands to the merge: any of the
\* required cookies, each with the value "w".
WafCookieSets == { [k \in ks |-> <<"w">>] : ks \in SUBSET Required }

\* Parsed user cookies: any of session and acw_tc, with the value "u" or "w".
UserCookieSets ==
    UNION { [ks -> {<<"u">>, <<"w">>}] :
              ks \in SUBSET {<<"session">>, <<"acw_tc">>} }

\* The characters of the cookie strings: a letter, the two delimiters and a
\* blank.
CookieChars == {"a", "=", ";", " "}

\* Every cookie string of at most MaxLen characters.
CookieStrings == UNION { [1..n -> CookieChars] : n \in 0..MaxLen }

\* "acw_tc=abc; foo=bar; broken"
ExampleCookies ==
    <<"a", "c", "w", "_", "t", "c", "=", "a", "b", "c", ";", " ",
      "f", "o", "o", "=", "b", "a", "r", ";", " ",
      "b", "r", "o", "k", "e", "n">>

\* cookies_data as parse_cookies can receive it: a string, a mapping (one of
\* them with blanks around its key, which a parse would strip), or a value
\* of another type.
ParseInputs ==
    { StrPayload(str) : str \in CookieStrings \cup {ExampleCookies} }
    \cup { DictPayload(d) : d \in UserCookieSets }
    \cup { DictPayload([k \in {<<" ", "a", " ">>} |-> <<" ", "=", ";">>]) }
    \cup { OtherPayload }

\* No run of main: one function is called on its own, once.
InitPure ==
    /\ accounts = <<>>
    /\ webhook = FALSE
    /\ hashFile = NoHashFile
    /\ hashLoads = 0
    /\ hashSaves = 0
    /\ pc = "pure"
    /\ i = 0
    /\ provider = NoProvider
    /\ cookies = EmptyDict
    /\ all_cookies = EmptyDict
    /\ info = NoInfo
    /\ ret = NoReturn
    /\ clients = <<>>
    /\ browser = NoBrowser
    /\ requests = <<>>
    /\ outcomes = <<>>
    /\ success = 0
    /\ balances = <<>>
    /\ notifyCalls = 0
    /\ notify = "none"
    /\ message = NoMessage
    /\ exitCode = -1
    /\ exitCause = "running"
    /\ call = NoCall
    /\ answer = NoCall

main == <<config, hashVars, pc, i, locals, ret, clients, browser, requests,
          tally, notifier, exit>>

\* execute_check_in(client, account_name, provider_config, headers)
CallExecuteCheckIn ==
    /\ pc = "pure"
    /\ call = NoCall
    /\ \E resp \in CheckInInputs :
          /\ call' = [fn |-> "execute_check_in", resp |-> resp]
          /\ answer' = execute_check_in(resp)
    /\ UNCHANGED main

\* get_user_info(client, headers, user_info_url)
CallGetUserInfo ==
    /\ pc = "pure"
    /\ call = NoCall
    /\ \E resp \in BalanceInputs :
          /\ call' = [fn |-> "get_user_info", resp |-> resp]
          /\ answer' = get_user_info(resp)
    /\ UNCHANGED main

\* prepare_cookies: return {**waf_cookies, **user_cookies}
CallMergeCookies ==
    /\ pc = "pure"
    /\ call = NoCall
    /\ \E waf_cookies \in WafCookieSets, user_cookies \in UserCookieSets :
          /\ call' = [fn |-> "prepare_cookies", waf_cookies |-> waf_cookies,
                      user_cookies |-> user_cookies]
          /\ answer' = [value |-> MergeCookies(waf_cookies, user_cookies)]
    /\ UNCHANGED main

\* parse_cookies(cookies_data)
CallParseCookies ==
    /\ pc = "pure"
    /\ call = NoCall
    /\ \E cookies_data \in ParseInputs :
          /\ call' = [fn |-> "parse_cookies", cookies_data |-> cookies_data]
          /\ answer' = [value |-> parse_cookies(cookies_data)]
    /\ UNCHANGED main

NextPure ==
    \/ CallExecuteCheckIn
    \/ CallGetUserInfo
    \/ CallMergeCookies
    \/ CallParseCookies

SpecPure == InitPure /\ [][NextPure]_vars

\* =========================================================== properties
Accts == 1..Len(accounts)

ProviderOf(k) == get_provider(accounts[k].provider)

\* What each configurable cookie payload parses to.
ParsedPayload == [p \in CookiePayloads |-> parse_cookies(p)]

\* The cookie names account k configured.
OwnCookies(k) == DOMAIN ParsedPayload[accounts[k].cookies]

\* The entries of the network log made for account k, of one kind.
Events(k, kind) ==
    { n \in DOMAIN requests : requests[n].account = k /\ requests[n].kind = kind }

EventsOf(k) == { n \in DOMAIN requests : requests[n].account = k }

Finished == pc = "exited"

SomeOk == \E k \in Accts : outcomes[k].returned /\ outcomes[k].ok

\* check_in_account returned (False, None) for account k.
FailedWithoutInfo(k) ==
    outcomes[k].returned /\ ~outcomes[k].ok /\ ~outcomes[k].info.present

\* C1: an exception in any step of an account's sequence is turned into
\* ok=false for that account and the run goes on: a run that was not
\* interrupted ends only after every loaded account has an outcome and the
\* notification step was reached.
C1_FaultsContained ==
    (Finished /\ exitCause \notin {"interrupt", "no_accounts"}) =>
        /\ \A k \in Accts : outcomes[k].returned
        /\ notifyCalls = 1
        /\ exitCause = "normal"

\* C2: for a provider that needs WAF cookies every client and request of the
\* account carries all three WAF cookie names, and an account whose browser
\* phase did not deliver them ends with ok=false without a balance query or
\* a check-in.
C2_WafSessionOrFailure ==
    \A k \in Accts :
        ProviderOf(k).needs_waf_cookies =>
            /\ \A n \in EventsOf(k) :
                   requests[n].kind \in {"client", "GET", "POST"} =>
                       Required \subseteq requests[n].cookies
            /\ ( /\ Finished
                 /\ exitCause # "interrupt"
                 /\ Events(k, "browser") # {}
                 /\ Events(k, "client") = {} )
               => ( /\ outcomes[k].returned
                    /\ ~outcomes[k].ok
                    /\ Events(k, "GET") = {}
                    /\ Events(k, "POST") = {} )

\* C3: the exit code is 0 when the run ends normally with at least one
\* account ok, and 1 otherwise: no account ok, no accounts loaded, an
\* exception at the entry point, or a user interruption.
C3_ExitCode ==
    /\ ~Finished => (exitCode = -1 /\ exitCause = "running")
    /\ Finished =>
        /\ exitCause \in {"normal", "no_accounts", "exception", "interrupt"}
        /\ exitCause = "normal" =>
              /\ \A k \in Accts : outcomes[k].returned
              /\ exitCode = IF SomeOk THEN 0 ELSE 1
        /\ exitCause # "normal" => exitCode = 1
        /\ exitCause = "no_accounts" => accounts = <<>>
        /\ accounts = <<>> => exitCause \in {"no_accounts", "interrupt"}

\* A run of two accounts, one ok and one failed, that exits with 0.
C3_Witness ==
    /\ Finished
    /\ exitCause = "normal"
    /\ exitCode = 0
    /\ \E k \in Accts : outcomes[k].returned /\ ~outcomes[k].ok

\* The positions of check_in_account after provider resolution and after
\* cookie parsing.
AfterResolve == {"parse", "prepare", "launch", "client", "balance", "checkin", "auto"}

AfterParse   == AfterResolve \ {"parse"}

\* C4: for an account with manual check-in that reached the balance query and
\* returned, exactly one check-in POST followed the balance GET whatever the
\* balance query gave, and ok is true exactly when the check-in returned true.
C4_BalanceNotTerminal ==
    \A k \in Accts :
        ( /\ ProviderOf(k).needs_manual_check_in
          /\ Events(k, "GET") # {}
          /\ outcomes[k].returned )
        => /\ Cardinality(Events(k, "POST")) = 1
           /\ \A g \in Events(k, "GET") : \A c \in Events(k, "POST") :
                 /\ g < c
                 /\ outcomes[k].ok <=> requests[c].result = "true"

\* An account whose balance query timed out and whose check-in succeeded.
C4_Witness ==
    \E k \in Accts :
        /\ ProviderOf(k).needs_manual_check_in
        /\ outcomes[k].returned
        /\ outcomes[k].ok
        /\ outcomes[k].info.present
        /\ ~outcomes[k].info.success
        /\ \E g \in Events(k, "GET") : requests[g].result = "exception"

\* A usable session for account k: the provider is known, the cookie payload
\* parses to a non-empty mapping, and the WAF cookies were obtained when the
\* provider needs them.
UsableSession(k) ==
    /\ ProviderOf(k).found
    /\ OwnCookies(k) # {}
    /\ ProviderOf(k).needs_waf_cookies =>
          \E n \in Events(k, "client") : Required \subseteq requests[n].cookies

\* C5: for a provider without manual check-in no POST is issued, and an
\* account that returned with a usable session is ok, whatever the balance
\* query gave.
C5_AutoCheckIn ==
    \A k \in Accts :
        (ProviderOf(k).found /\ ~ProviderOf(k).needs_manual_check_in)
        => /\ Events(k, "POST") = {}
           /\ (i = k => pc # "checkin")
           /\ (outcomes[k].returned /\ UsableSession(k)) => outcomes[k].ok

\* An account without manual check-in that is ok although its balance query
\* failed.
C5_Witness ==
    \E k \in Accts :
        /\ ProviderOf(k).found
        /\ ~ProviderOf(k).needs_manual_check_in
        /\ outcomes[k].returned
        /\ outcomes[k].ok
        /\ outcomes[k].info.present
        /\ ~outcomes[k].info.success
        /\ Events(k, "GET") # {}

\* C6: an account whose cookie payload parses to the empty mapping returns
\* (False, None) at the latest from cookie parsing: no browser session, no
\* client, no GET and no POST is made for it.
C6_EmptyCookiesFailFast ==
    \A k \in Accts :
        OwnCookies(k) = {}
        => /\ EventsOf(k) = {}
           /\ clients[k] = "none"
           /\ (i = k => pc \notin AfterParse)
           /\ outcomes[k].returned => FailedWithoutInfo(k)

\* An account of a WAF provider with a cookie string without any '=' that
\* has returned.
C6_Witness ==
    \E k \in Accts :
        /\ ProviderOf(k).needs_waf_cookies
        /\ accounts[k].cookies.kind = "str"
        /\ OwnCookies(k) = {}
        /\ FailedWithoutInfo(k)

\* C7: an account whose provider id has no ProviderConfig returns
\* (False, None) from provider resolution: none of the later steps is entered
\* and nothing is done on the network for it.
C7_UnknownProvider ==
    \A k \in Accts :
        ~ProviderOf(k).found
        => /\ (i = k => pc \notin AfterResolve)
           /\ EventsOf(k) = {}
           /\ clients[k] = "none"
           /\ outcomes[k].returned => FailedWithoutInfo(k)

\* An account of an unknown provider with valid cookies that has returned.
C7_Witness ==
    \E k \in Accts :
        /\ ~ProviderOf(k).found
        /\ OwnCookies(k) # {}
        /\ FailedWithoutInfo(k)

\* The name -> {quota} mapping of the accounts with a successful balance read.
CurrentBalances ==
    [name \in { balances[n].name : n \in DOMAIN balances } |->
        [quota |-> (CHOOSE q \in { balances[n].balance : n \in DOMAIN balances } :
                       \E n \in DOMAIN balances :
                           balances[n].name = name /\ balances[n].balance = q)]]

\* C8: a run that processed its accounts to the end has loaded the persisted
\* digest once and saved the digest of the current {name: quota} mapping
\* once, so the state file holds the current digest at exit.
C8_DigestPersisted ==
    (Finished /\ exitCause = "normal") =>
        /\ hashLoads = 1
        /\ hashSaves = 1
        /\ hashFile = [exists |-> TRUE, digest |-> generate_balance_hash(CurrentBalances)]

\* C9: a run with at least one account that is not interrupted ends only
\* after the notifier was invoked exactly once, with every account processed
\* before the invocation.
C9_NotifiedOnce ==
    /\ notifyCalls <= 1
    /\ notifyCalls = 1 => \A k \in Accts : outcomes[k].returned
    /\ (Finished /\ exitCause # "interrupt" /\ accounts # <<>>) => notifyCalls = 1

\* C10: whatever the notification step did (skipped, status 200, another
\* status, transport exception), the run goes on to its exit statement, and
\* a run that got past the notification without interruption exits with 0
\* exactly when some account was ok.
C10_NotifyKeepsExitCode ==
    /\ pc = "exit" =>
          /\ notify \in {"skipped", "200", "500", "exc"}
          /\ notify = "skipped" <=> ~webhook
          /\ exitCode = -1
    /\ (Finished /\ notifyCalls > 0 /\ exitCause # "interrupt") =>
          /\ exitCause = "normal"
          /\ exitCode = IF SomeOk THEN 0 ELSE 1

\* A run whose webhook POST raised a transport exception and that exits
\* with 0.
C10_Witness ==
    /\ Finished
    /\ notify = "exc"
    /\ exitCause = "normal"
    /\ exitCode = 0


\* The accounts main has received an outcome for.
Processed == { k \in Accts : outcomes[k].returned }

\* The accounts whose returned balance info has success true.
WithBalance == { k \in Processed : outcomes[k].info.present /\ outcomes[k].info.success }

\* The loop of main is over and the run was not cut short.
LoopDone == pc \in {"notify", "exit"} \/ (Finished /\ exitCause = "normal")

\* C11: the summary holds one row for each processed account with a
\* successful balance info and no other row, in the configured order, each
\* with that account's quota and used quota; success counts the accounts
\* with ok=true, and the counters handed to the notifier add up to the total.
C11_SummaryRows ==
    /\ { balances[n].name : n \in DOMAIN balances } = WithBalance
    /\ Len(balances) = Cardinality(WithBalance)
    /\ \A m, n \in DOMAIN balances : m < n => balances[m].name < balances[n].name
    /\ \A n \in DOMAIN balances :
          /\ balances[n].balance = outcomes[balances[n].name].info.quota
          /\ balances[n].used = outcomes[balances[n].name].info.used_quota
    /\ success = Cardinality({ k \in Processed : outcomes[k].ok })
    /\ LoopDone =>
          /\ Processed = Accts
          /\ success <= Len(accounts)
    /\ notifyCalls = 1 =>
          /\ message.accounts_info = balances
          /\ message.success = success
          /\ message.total = Len(accounts)
          /\ message.success + message.fail = message.total
          /\ message.fail >= 0

\* The loop is over with one account that has a row but is not ok and one
\* account that is ok but has no row.
C11_Witness ==
    /\ LoopDone
    /\ \E k \in WithBalance : ~outcomes[k].ok
    /\ \E k \in Processed \ WithBalance : outcomes[k].ok


\* The letters of "success" in either case, for a comparison that ignores
\* case.
SameLetter(c, d) ==
    \/ c = d
    \/ {c, d} \in {{"s", "S"}, {"u", "U"}, {"c", "C"}, {"e", "E"}}

\* The text holds the token "success", case ignored.
HasSuccessToken(t) ==
    \E k \in 0..(Len(t) - 7) :
        \A j \in 1..7 : SameLetter(t[k + j], SuccessToken[j])

\* The decoded object signals success: ret == 1, code == 0 or success true.
SignalsSuccess(o) ==
    \/ ("ret" \in DOMAIN o /\ o.ret = 1)
    \/ ("code" \in DOMAIN o /\ o.code = 0)
    \/ ("success" \in DOMAIN o /\ o.success = TRUE)

\* C12: execute_check_in returns true exactly when the status is 200 and
\* either the body decodes to an object that signals success or the body is
\* not JSON and holds the token "success", case ignored; a status other than
\* 200 gives false, and a body that decodes never uses the substring check.
C12_CheckInClassified ==
    call.fn = "execute_check_in" =>
        LET r == call.resp
        IN  /\ (r.kind = "resp" /\ r.status # 200) =>
                   (~answer.raised /\ ~answer.value)
            /\ (r.kind = "resp" /\ r.status = 200 /\ r.body = "object") =>
                   (~answer.raised /\ (answer.value <=> SignalsSuccess(r.obj)))
            /\ (r.kind = "resp" /\ r.status = 200 /\ r.body = "notjson") =>
                   (~answer.raised /\ (answer.value <=> HasSuccessToken(r.text)))
            /\ (r.kind = "resp" /\ r.status = 200 /\ r.body = "other") =>
                   ~answer.value
            /\ (answer.value /\ ~answer.raised) =>
                   /\ r.kind = "resp"
                   /\ r.status = 200
                   /\ \/ (r.body = "object" /\ SignalsSuccess(r.obj))
                      \/ (r.body = "notjson" /\ HasSuccessToken(r.text))

\* The object {"code": 1, "msg": "already signed"} at status 200, with a raw
\* body that holds "success", is classified as a failure.
C12_Witness ==
    /\ call.fn = "execute_check_in"
    /\ call.resp.status = 200
    /\ call.resp.body = "object"
    /\ DOMAIN call.resp.obj = {"code", "msg"}
    /\ call.resp.obj.code = 1
    /\ call.resp.text # <<>>
    /\ ~answer.raised
    /\ ~answer.value


\* Dialect A: a truthy success.
DialectA(o) == "success" \in DOMAIN o /\ o.success = TRUE

\* Dialect B: status ok or success, or code == 0.
DialectB(o) ==
    \/ ("status" \in DOMAIN o /\ o.status \in {"ok", "success"})
    \/ ("code" \in DOMAIN o /\ o.code = 0)

\* The field f of object o, or 0 when it is absent.
FieldOrZero(o, f) == IF f \in DOMAIN o THEN o[f] ELSE 0

\* The fields Dialect A reads are usable.
UsableA(r) ==
    \/ "data" \notin DOMAIN r.obj
    \/ /\ "data" \notin r.wrongType
       /\ "quota" \in DOMAIN r.obj.data => "quota" \notin r.wrongType
       /\ "used_quota" \in DOMAIN r.obj.data => "used_quota" \notin r.wrongType

\* The fields Dialect B reads are usable.
UsableB(r) ==
    /\ "credit" \in DOMAIN r.obj => "credit" \notin r.wrongType
    /\ "usage" \in DOMAIN r.obj => "usage" \notin r.wrongType

\* C13: get_user_info always hands a BalanceInfo to its caller.  At status
\* 200 a decoded object with a truthy success is read as Dialect A (fields
\* under data), also when it matches Dialect B; otherwise one with status
\* ok/success or code == 0 is read as Dialect B (credit, usage); every other
\* case, malformed fields and transport errors included, gives success false
\* with an error string.
C13_BalanceNeverRaises ==
    call.fn = "get_user_info" =>
        LET r == call.resp
            decoded == r.kind = "resp" /\ r.status = 200 /\ r.body = "object"
            asA == decoded /\ DialectA(r.obj) /\ UsableA(r)
            asB == decoded /\ ~DialectA(r.obj) /\ DialectB(r.obj) /\ UsableB(r)
        IN  /\ answer.present
            /\ asA =>
                  LET d == IF "data" \in DOMAIN r.obj THEN r.obj.data ELSE EmptyDict
                  IN  /\ answer.success
                      /\ answer.quota = Round2(FieldOrZero(d, "quota"))
                      /\ answer.used_quota = Round2(FieldOrZero(d, "used_quota"))
            /\ asB =>
                  /\ answer.success
                  /\ answer.quota = Round2(FieldOrZero(r.obj, "credit"))
                  /\ answer.used_quota = Round2(FieldOrZero(r.obj, "usage"))
            /\ ~(asA \/ asB) =>
                  /\ ~answer.success
                  /\ answer.error # ""

\* A payload matching both dialects, with different amounts under data and
\* at the top level, is read as Dialect A.
C13_Witness ==
    /\ call.fn = "get_user_info"
    /\ call.resp.kind = "resp"
    /\ call.resp.status = 200
    /\ call.resp.body = "object"
    /\ DialectA(call.resp.obj)
    /\ DialectB(call.resp.obj)
    /\ {"data", "credit"} \subseteq DOMAIN call.resp.obj
    /\ call.resp.obj.data # EmptyDict
    /\ call.resp.wrongType = {"credit"}
    /\ answer.success
    /\ answer.quota = 200


\* The kinds of log entries of an account's HTTP phase.
HttpKinds == {"client", "GET", "POST"}

\* C14: accounts are processed one at a time in configured order: every
\* account before the current one has returned its outcome, no later account
\* has done anything, the log is ordered by account; a running browser phase
\* belongs to the current account alone, and while it runs no HTTP client of
\* any account is open and the account has issued no HTTP request; in the
\* log a browser entry of an account precedes all its HTTP entries.
C14_Sequential ==
    /\ \A k \in Accts :
          /\ k < i => outcomes[k].returned
          /\ k > i => (~outcomes[k].returned /\ EventsOf(k) = {} /\ clients[k] = "none")
          /\ (k = i /\ pc \in AfterResolve) => ~outcomes[k].returned
    /\ \A n \in 1..(Len(requests) - 1) :
          requests[n].account <= requests[n + 1].account
    /\ browser # NoBrowser =>
          /\ pc = "launch"
          /\ i \in Accts
          /\ requests[Len(requests)] = [account |-> i, kind |-> "browser",
                                        cookies |-> {}, result |-> ""]
          /\ \A k \in Accts : clients[k] # "open"
          /\ \A kind \in HttpKinds : Events(i, kind) = {}
    /\ \A k \in Accts : \A m \in Events(k, "browser") : \A n \in EventsOf(k) :
          requests[n].kind \in HttpKinds => m < n

\* The browser phase of the second account runs after the first account
\* went through its HTTP phase and returned.
C14_Witness ==
    /\ i = 2
    /\ pc = "launch"
    /\ browser # NoBrowser
    /\ outcomes[1].returned
    /\ Events(1, "GET") # {}
    /\ clients[1] = "closed"


\* The steps of check_in_account between httpx.Client(...) and client.close().
HttpPhase == {"balance", "checkin", "auto"}

\* C15: a client is open only for the current account and only during its
\* HTTP phase; each account that reaches the HTTP phase gets one client of
\* its own, created before its requests; the client is closed when the
\* account has returned, whatever the balance query and the check-in did,
\* and none is open at the end of the run; the requests of an account carry
\* the cookies of that account and no cookie of another one.
C15_ClientScoped ==
    /\ \A k \in Accts :
          /\ clients[k] = "open" => (k = i /\ pc \in HttpPhase)
          /\ outcomes[k].returned => clients[k] # "open"
          /\ clients[k] # "none" <=> Events(k, "client") # {}
          /\ Cardinality(Events(k, "client")) <= 1
          /\ \A n \in EventsOf(k) :
                requests[n].kind \in {"GET", "POST"} =>
                    \E m \in Events(k, "client") : m < n
          /\ Events(k, "client") # {} =>
                LET own == OwnCookies(k)
                    waf == IF ProviderOf(k).needs_waf_cookies THEN Required ELSE {}
                IN  \A n \in EventsOf(k) :
                        requests[n].kind \in HttpKinds =>
                            /\ own \subseteq requests[n].cookies
                            /\ requests[n].cookies \subseteq own \cup waf
    /\ (i \in Accts /\ pc \in HttpPhase) => clients[i] = "open"
    /\ pc \notin HttpPhase => \A k \in Accts : clients[k] # "open"
    /\ Finished => \A k \in Accts : clients[k] # "open"

\* Two accounts with different cookies went through the HTTP phase, the
\* check-in of the first one raised, and the run has ended: both clients are
\* closed and the second account's requests carried its own cookie only.
C15_Witness ==
    /\ Finished
    /\ Len(accounts) = 2
    /\ OwnCookies(1) # OwnCookies(2)
    /\ \E n \in Events(1, "POST") : requests[n].result = "raised"
    /\ \E n \in Events(2, "GET") : requests[n].cookies = {<<"t">>}
    /\ clients[1] = "closed"
    /\ clients[2] = "closed"


\* get_waf_cookies_with_playwright was entered for account k and has been
\* left.
BrowserPhaseLeft(k) ==
    /\ Events(k, "browser") # {}
    /\ ~(k = i /\ pc = "launch")

\* C16: once get_waf_cookies_with_playwright has been left, by whatever
\* path, nothing of the browser phase remains: no open browser context, no
\* profile directory, no running driver; and no context is ever left open
\* at the end of a run.
C16_BrowserReleased ==
    /\ \A k \in Accts :
          BrowserPhaseLeft(k) =>
              /\ ~browser.context
              /\ ~browser.temp_dir
              /\ ~browser.playwright
    /\ (browser.context \/ browser.temp_dir \/ browser.playwright) =>
          (i \in Accts /\ Events(i, "browser") # {} /\ ~outcomes[i].returned)
    /\ Finished => browser = NoBrowser

\* The launch of the browser failed with an exception, and the function was
\* left with the profile directory removed and the driver stopped.
C16_Witness ==
    /\ pc = "raised"
    /\ i \in Accts
    /\ BrowserPhaseLeft(i)
    /\ browser = NoBrowser


\* C17: the merged cookie set has every WAF cookie name and every user
\* cookie name as a key and no other key; a user cookie keeps its value,
\* also under a name the WAF cookies hold, and a WAF cookie under a name the
\* user cookies do not hold keeps its value.
C17_MergeIsUnion ==
    call.fn = "prepare_cookies" =>
        LET waf == call.waf_cookies
            usr == call.user_cookies
            all == answer.value
        IN  /\ DOMAIN all = (DOMAIN waf) \cup (DOMAIN usr)
            /\ \A k \in DOMAIN usr : all[k] = usr[k]
            /\ \A k \in (DOMAIN waf) \ (DOMAIN usr) : all[k] = waf[k]

\* The three WAF cookies merged with a session cookie and a user cookie
\* named acw_tc of another value: four keys, acw_tc with the user's value.
C17_Witness ==
    /\ call.fn = "prepare_cookies"
    /\ DOMAIN call.waf_cookies = Required
    /\ DOMAIN call.user_cookies = {<<"session">>, <<"acw_tc">>}
    /\ call.user_cookies[<<"acw_tc">>] # call.waf_cookies[<<"acw_tc">>]
    /\ DOMAIN answer.value = Required \cup {<<"session">>}
    /\ answer.value[<<"acw_tc">>] = <<"u">>


\* The positions around the segments of str: before its first character,
\* after its last one, and every ';'.
Cuts(str) == {0, Len(str) + 1} \cup { p \in 1..Len(str) : str[p] = ";" }

\* The segments of str, each as the pair of cuts around it.
Segments(str) ==
    { sb \in Cuts(str) \X Cuts(str) :
        /\ sb[1] < sb[2]
        /\ \A c \in Cuts(str) : ~(sb[1] < c /\ c < sb[2]) }

\* The segments that contain '='.
PairSegments(str) ==
    { sb \in Segments(str) : \E p \in (sb[1] + 1)..(sb[2] - 1) : str[p] = "=" }

\* First and last position of a segment that do not hold a blank.
FirstOf(str, sb) ==
    CHOOSE p \in (sb[1] + 1)..(sb[2] - 1) :
        str[p] # " " /\ \A q \in (sb[1] + 1)..(p - 1) : str[q] = " "

LastOf(str, sb) ==
    CHOOSE p \in (sb[1] + 1)..(sb[2] - 1) :
        str[p] # " " /\ \A q \in (p + 1)..(sb[2] - 1) : str[q] = " "

\* Position of the first '=' of a segment.
EqOf(str, sb) ==
    CHOOSE p \in (sb[1] + 1)..(sb[2] - 1) :
        str[p] = "=" /\ \A q \in (sb[1] + 1)..(p - 1) : str[q] # "="

KeyOf(str, sb) == SubSeq(str, FirstOf(str, sb), EqOf(str, sb) - 1)

ValueOf(str, sb) == SubSeq(str, EqOf(str, sb) + 1, LastOf(str, sb))

\* What the example string parses to: {acw_tc: abc, foo: bar}.
ExampleParsed ==
    [k \in {<<"a", "c", "w", "_", "t", "c">>, <<"f", "o", "o">>} |->
        IF k = <<"f", "o", "o">> THEN <<"b", "a", "r">> ELSE <<"a", "b", "c">>]

\* What parse_cookies does with the example and with inputs that are not
\* strings.
ParseOtherCases ==
    /\ call.cookies_data = StrPayload(ExampleCookies) => answer.value = ExampleParsed
    /\ call.cookies_data.kind = "dict" => answer.value = call.cookies_data.dict
    /\ call.cookies_data.kind = "other" => answer.value = EmptyDict

\* C18 as stated: a cookie string gives exactly one entry per segment that
\* contains '=', holding that segment's key and value.
C18_OneEntryPerSegment ==
    call.fn = "parse_cookies" =>
        /\ ParseOtherCases
        /\ call.cookies_data.kind = "str" =>
              LET str == call.cookies_data.str
                  segs == PairSegments(str)
              IN  /\ Cardinality(DOMAIN answer.value) = Cardinality(segs)
                  /\ \A sb \in segs :
                        /\ KeyOf(str, sb) \in DOMAIN answer.value
                        /\ answer.value[KeyOf(str, sb)] = ValueOf(str, sb)

\* C18: a cookie string gives one entry per distinct key among the segments
\* that contain '=': the key is the stripped segment up to its first '=',
\* the value the rest, taken from the last segment with that key; segments
\* without '=' give nothing; the example string gives {acw_tc: abc, foo:
\* bar}; a mapping is returned unchanged and any other type gives the empty
\* mapping.
C18_OneEntryPerKey ==
    call.fn = "parse_cookies" =>
        /\ ParseOtherCases
        /\ call.cookies_data.kind = "str" =>
              LET str == call.cookies_data.str
                  segs == PairSegments(str)
              IN  /\ DOMAIN answer.value = { KeyOf(str, sb) : sb \in segs }
                  /\ \A sb \in segs :
                        (\A other \in segs :
                            KeyOf(str, other) = KeyOf(str, sb) => other[1] <= sb[1])
                        => answer.value[KeyOf(str, sb)] = ValueOf(str, sb)

\* A cookie string with two segments of the same key and different values,
\* parsed to one entry with the later value.
C18_Witness ==
    /\ call.fn = "parse_cookies"
    /\ call.cookies_data.kind = "str"
    /\ \E sb, other \in PairSegments(call.cookies_data.str) :
          /\ other[1] < sb[1]
          /\ KeyOf(call.cookies_data.str, other) = KeyOf(call.cookies_data.str, sb)
          /\ ValueOf(call.cookies_data.str, other) # ValueOf(call.cookies_data.str, sb)
          /\ Cardinality(DOMAIN answer.value) = 1
          /\ answer.value[KeyOf(call.cookies_data.str, sb)] = ValueOf(call.cookies_data.str, sb)


\* The balance GET of account k succeeded.
BalanceObtained(k) == \E n \in Events(k, "GET") : requests[n].result = "ok"

\* The check-in POST of account k ended with result r.
CheckInEnded(k, r) == \E n \in Events(k, "POST") : requests[n].result = r

\* The rows of the run summary that belong to account k.
RowsOf(k) == { n \in DOMAIN balances : balances[n].name = k }

\* C19: an account whose check-in raised has returned (False, None) and has
\* no row in the summary, also when its balance query had succeeded; an
\* account whose check-in returned false after a successful balance query
\* has returned ok false together with that balance info, and has its row.
C19_RaisedDiscardsInfo ==
    \A k \in Accts :
        outcomes[k].returned =>
            /\ CheckInEnded(k, "raised") =>
                  /\ FailedWithoutInfo(k)
                  /\ RowsOf(k) = {}
            /\ (CheckInEnded(k, "false") /\ BalanceObtained(k)) =>
                  /\ ~outcomes[k].ok
                  /\ outcomes[k].info.present
                  /\ outcomes[k].info.success
                  /\ Cardinality(RowsOf(k)) = 1
                  /\ \A n \in RowsOf(k) :
                        balances[n].balance = outcomes[k].info.quota

\* Two accounts with a successful balance query: the check-in of the first
\* raised and it has no row, the check-in of the second returned false and
\* it has its row.
C19_Witness ==
    /\ Len(accounts) = 2
    /\ outcomes[1].returned
    /\ outcomes[2].returned
    /\ BalanceObtained(1)
    /\ CheckInEnded(1, "raised")
    /\ RowsOf(1) = {}
    /\ BalanceObtained(2)
    /\ CheckInEnded(2, "false")
    /\ RowsOf(2) # {}


\* C20: within one run an account has at most one browser session, at most
\* one balance GET and at most one check-in POST in the log, and its POST
\* comes after its GET.
C20_NoRetry ==
    \A k \in Accts :
        /\ Cardinality(Events(k, "browser")) <= 1
        /\ Cardinality(Events(k, "GET")) <= 1
        /\ Cardinality(Events(k, "POST")) <= 1
        /\ \A n \in Events(k, "POST") : \E m \in Events(k, "GET") : m < n
        /\ (k = i /\ pc = "checkin") => Events(k, "GET") # {}

\* A run that ended after a failed balance GET and a failed check-in POST
\* of the first account and a failed browser session of the second one.
C20_Witness ==
    /\ Finished
    /\ Len(accounts) = 2
    /\ \E n \in Events(1, "GET") : requests[n].result # "ok"
    /\ \E n \in Events(1, "POST") : requests[n].result # "true"
    /\ Cardinality(Events(2, "browser")) = 1

====
